---- MODULE Spec2Model ----
(***************************************************************************)
(* The arena allocator of P1/mymalloc.c: mymalloc, myfree and the exit    *)
(* time leak scan, over the static arena heap.bytes.                       *)
(*                                                                         *)
(* Memory model.  The arena is an array of 8-byte words.  A chunk header   *)
(* (chunk_t, 16 bytes) is two words: `size` (size_t) is the first word,    *)
(* `allocated` (int) is the low half of the second word and the other half *)
(* is padding that no store of the program writes.  The arena is a static  *)
(* object, so every word starts as zero, and every value the program       *)
(* stores is far below 2^32: the padding therefore stays zero, a store of  *)
(* `allocated` makes the word equal to the flag, and a load of `allocated` *)
(* is nonzero exactly when the word is nonzero (little-endian LP64, the    *)
(* layout with sizeof(chunk_t) = 16).  The words are kept as the program   *)
(* leaves them: merged-away headers stay in the arena as stale data.  The   *)
(* client stores nothing in its payloads: payload words hold what the      *)
(* allocator last put there.                                               *)
(*                                                                         *)
(* Addresses inside the operators are byte offsets from heap.bytes; the    *)
(* pointers the client sees are Base + offset, and NULL is 0.              *)
(*                                                                         *)
(* Spec is one client calling malloc and free, good and bad pointers       *)
(* included, up to the return from main.  SpecConcurrent is several        *)
(* callers inside mymalloc at once over the shared arena.  The operators   *)
(* named project1_... are the allocator of project1-mymalloc/mymalloc.c,   *)
(* set beside the first one call by call.                                  *)
(***************************************************************************)
EXTENDS Integers, Sequences, FiniteSets, TLC

\* ---------------------------------------------------------------- bounds
\* The arena is MemWords words long (MEMLENGTH is a compile-time parameter of
\* the source, 4096 by default; the model runs a smaller arena).
MemWords == 12
\* heap.bytes starts at word BaseWords of the address space (any nonzero
\* 8-aligned address: the union holds a double).
BaseWords == 2
\* Requests of 1 .. MaxReqWords words are tried (odd word counts one byte past
\* the previous word, so that the rounding acts), plus 0, the whole first
\* chunk and the sizes at the top of size_t.
MaxReqWords == 2
\* size_t is modelled SizeBits wide (64 in the program): sizes wrap at 2^SizeBits.
SizeBits == 12
\* The client passes at most MaxBadReturns pointers that are not live to myfree
\* and gets control back.
MaxBadReturns == 1
\* NumThreads callers run mymalloc at the same time with no lock around it.
NumThreads == 2

\* ------------------------------------------------------------- constants
ALIGNMENT == 8
MIN_CHUNK_SIZE == 16
\* sizeof(chunk_t): size_t size; int allocated; 4 bytes of padding
HeaderSize == 16

MEMLENGTH == MemWords * ALIGNMENT
Base == BaseWords * ALIGNMENT
NULL == 0
SizeMod == 2 ^ SizeBits
SIZE_MAX == SizeMod - 1

VARIABLES
    heap,         \* heap.bytes as words: [0 .. MemWords-1 -> Nat]
    initialized,  \* static int initialized
    atexits,      \* number of atexit(leak_detection) registrations
    status,       \* "running", "exit2" (exit(2)), "exit0" (main returned), or
                  \* "ub": a call read or wrote outside the arena or off a word
                  \* boundary, and what the process does next is not
                  \* determined by the source; the model follows it no further
    report,       \* what leak_detection printed: <<>> or <<objects, bytes>>
    leakRuns,     \* how many times leak_detection has run
    live,         \* client: pointers mymalloc returned, not passed to myfree since
    granted,      \* client: the payload size of the chunk behind each live
                  \* pointer when mymalloc returned it
    freed,        \* client: pointers released by myfree, not returned again since
    badReturns,   \* client: calls of myfree on non-live pointers that came back
    last,         \* the call that has just ended, with its argument and its
                  \* result, until the client goes on
    calls         \* the calls of mymalloc that callers without mutual exclusion
                  \* have under way, each with its position and its locals

vars == <<heap, initialized, atexits, status, report, leakRuns, live, granted,
          freed, badReturns, last, calls>>

\* ------------------------------------------------------- arena accesses
\* A word of the arena can be read or written at byte offset off.
InArena(off) == off >= 0 /\ off % ALIGNMENT = 0 /\ off + ALIGNMENT <= MEMLENGTH

\* Both words of a header at byte offset off lie in the arena.
HeaderInArena(off) == InArena(off) /\ InArena(off + ALIGNMENT)

\* chunk->size of the header at byte offset off
SizeAt(h, off) == IF InArena(off) THEN h[off \div ALIGNMENT] ELSE 0

\* chunk->allocated of the header at byte offset off
AllocatedAt(h, off) ==
    IF InArena(off + ALIGNMENT) THEN h[(off + ALIGNMENT) \div ALIGNMENT] # 0 ELSE FALSE

\* chunk->size = v
SetSize(h, off, v) == [h EXCEPT ![off \div ALIGNMENT] = v]

\* chunk->allocated = v
SetAllocated(h, off, v) == [h EXCEPT ![(off + ALIGNMENT) \div ALIGNMENT] = v]

\* (char*)chunk + sizeof(chunk_t) + chunk->size
NextOf(h, off) == off + HeaderSize + SizeAt(h, off)

\* ------------------------------------------------------- initialize_heap
\* An initialization that leaves the first chunk marked allocated.
initialize_heap_Allocated(h) ==
    SetAllocated(SetSize(h, 0, MEMLENGTH - HeaderSize), 0, 1)

\* One free chunk spanning the arena.
initialize_heap(h) ==
    SetAllocated(SetSize(h, 0, MEMLENGTH - HeaderSize), 0, 0)

\* A rounding that goes down to the multiple of ALIGNMENT below.
AlignedSize_RoundDown(size) ==
    size - (size % ALIGNMENT)

\* ------------------------------------------------------------- mymalloc
\* (size + (ALIGNMENT - 1)) & ~(ALIGNMENT - 1) in size_t arithmetic, then the
\* minimum payload MIN_CHUNK_SIZE - sizeof(chunk_t).
AlignedSize(size) ==
    LET x == (size + (ALIGNMENT - 1)) % SizeMod
        a == x - (x % ALIGNMENT)
        m == (MIN_CHUNK_SIZE - HeaderSize) % SizeMod
    IN  IF a < m THEN m ELSE a

\* The first-fit loop from chunk cur on: the offset of the selected chunk,
\* or no chunk, or an access outside the arena or off a word boundary.
RECURSIVE FindFit(_, _, _)
FindFit(h, cur, want) ==
    IF ~(cur < MEMLENGTH)
    THEN [found |-> FALSE, at |-> 0, ub |-> FALSE]
    ELSE IF ~HeaderInArena(cur)
    THEN [found |-> FALSE, at |-> cur, ub |-> TRUE]
    ELSE IF ~AllocatedAt(h, cur) /\ SizeAt(h, cur) >= want
    THEN [found |-> TRUE, at |-> cur, ub |-> FALSE]
    ELSE LET next == NextOf(h, cur)
         IN  IF next <= cur \/ next >= MEMLENGTH
             THEN [found |-> FALSE, at |-> 0, ub |-> FALSE]
             ELSE FindFit(h, next, want)

\* A split test that wants the chunk strictly larger than the threshold.
SplitNeeded_Strict(h, cur, want) ==
    SizeAt(h, cur) > (want + HeaderSize + MIN_CHUNK_SIZE) % SizeMod

\* The split test of the selected chunk.
SplitNeeded(h, cur, want) ==
    SizeAt(h, cur) >= (want + HeaderSize + MIN_CHUNK_SIZE) % SizeMod

\* The selected chunk at cur is split if it is large enough, then marked
\* allocated.
TakeChunk(h, cur, want) ==
    IF SplitNeeded(h, cur, want)
    THEN LET new_chunk == cur + HeaderSize + want
             remaining_size == (SizeAt(h, cur) - want - HeaderSize) % SizeMod
         IN  IF ~HeaderInArena(new_chunk)
             THEN [heap |-> h, ub |-> TRUE]
             ELSE [heap |-> SetAllocated(
                               SetSize(SetAllocated(SetSize(h, new_chunk, remaining_size),
                                                    new_chunk, 0),
                                       cur, want),
                               cur, 1),
                   ub |-> FALSE]
    ELSE [heap |-> SetAllocated(h, cur, 1), ub |-> FALSE]

\* mymalloc(size) on arena h: the arena after the call, the pointer returned.
mymalloc(h, init, size) ==
    LET h0 == IF init THEN h ELSE initialize_heap(h)
    IN  IF size = 0
        THEN [heap |-> h0, ret |-> NULL, ub |-> FALSE]
        ELSE LET want == AlignedSize(size)
                 f == FindFit(h0, 0, want)
             IN  IF f.ub
                 THEN [heap |-> h0, ret |-> Base + f.at + HeaderSize, ub |-> TRUE]
                 ELSE IF ~f.found
                 THEN [heap |-> h0, ret |-> NULL, ub |-> FALSE]
                 ELSE LET t == TakeChunk(h0, f.at, want)
                      IN  [heap |-> t.heap,
                           ret |-> Base + f.at + HeaderSize,
                           ub |-> t.ub]

\* --------------------------------------------------------------- myfree
\* A bounds check that takes the end address of the arena for a part of it.
OutOfBounds_EndIncluded(ptr) == ptr < Base \/ ptr > Base + MEMLENGTH

\* The bounds check of the pointer.
OutOfBounds(ptr) == ptr < Base \/ ptr >= Base + MEMLENGTH

\* The alignment check of the pointer.
Misaligned(ptr) == ptr % ALIGNMENT # 0

\* The validation of the header at offset chunk = ptr - sizeof(chunk_t).
InvalidHeader(h, chunk) ==
    \/ chunk < 0
    \/ chunk + HeaderSize + SizeAt(h, chunk) > MEMLENGTH
    \/ SizeAt(h, chunk) = 0
    \/ SizeAt(h, chunk) % ALIGNMENT # 0

\* Coalescing with the next chunk: the header at chunk has been marked free.
CoalesceNext(h, chunk) ==
    LET next == NextOf(h, chunk)
    IN  IF next < MEMLENGTH
        THEN IF ~HeaderInArena(next)
             THEN [heap |-> h, ub |-> TRUE]
             ELSE IF ~AllocatedAt(h, next)
             THEN [heap |-> SetSize(h, chunk,
                                    (SizeAt(h, chunk) + HeaderSize + SizeAt(h, next))
                                        % SizeMod),
                   ub |-> FALSE]
             ELSE [heap |-> h, ub |-> FALSE]
        ELSE [heap |-> h, ub |-> FALSE]

\* The scan from the start of the arena for the chunk that ends where chunk
\* starts: its offset, or none.
RECURSIVE FindPrev(_, _, _)
FindPrev(h, scan, chunk) ==
    IF ~(scan # chunk /\ scan < MEMLENGTH)
    THEN [found |-> FALSE, at |-> 0, ub |-> FALSE]
    ELSE IF ~InArena(scan)
    THEN [found |-> FALSE, at |-> scan, ub |-> TRUE]
    ELSE LET next_scan == NextOf(h, scan)
         IN  IF next_scan = chunk
             THEN [found |-> TRUE, at |-> scan, ub |-> ~HeaderInArena(scan)]
             ELSE IF next_scan <= scan \/ next_scan >= MEMLENGTH
             THEN [found |-> FALSE, at |-> 0, ub |-> FALSE]
             ELSE FindPrev(h, next_scan, chunk)

\* Coalescing with the previous chunk, found by the scan.
CoalescePrev(h, chunk) ==
    LET p == FindPrev(h, 0, chunk)
    IN  IF p.ub
        THEN [heap |-> h, ub |-> TRUE]
        ELSE IF p.found /\ ~AllocatedAt(h, p.at)
        THEN [heap |-> SetSize(h, p.at,
                               (SizeAt(h, p.at) + HeaderSize + SizeAt(h, chunk))
                                   % SizeMod),
              ub |-> FALSE]
        ELSE [heap |-> h, ub |-> FALSE]

\* A myfree without the test for NULL: NULL goes on to the bounds check.
myfree_NoNullTest(h, ptr) ==
    LET chunk == ptr - Base - HeaderSize
    IN  IF OutOfBounds(ptr)
        THEN [heap |-> h, end |-> "exit2", why |-> "bounds", ub |-> FALSE]
        ELSE IF Misaligned(ptr)
        THEN [heap |-> h, end |-> "exit2", why |-> "misaligned", ub |-> FALSE]
        ELSE IF InvalidHeader(h, chunk)
        THEN [heap |-> h, end |-> "exit2", why |-> "header", ub |-> FALSE]
        ELSE IF ~AllocatedAt(h, chunk)
        THEN [heap |-> h, end |-> "exit2", why |-> "double", ub |-> FALSE]
        ELSE LET h1 == SetAllocated(h, chunk, 0)
                 n == CoalesceNext(h1, chunk)
                 p == CoalescePrev(n.heap, chunk)
             IN  [heap |-> p.heap, end |-> "return", why |-> "freed",
                  ub |-> n.ub \/ p.ub]

\* A myfree that marks the chunk free before it validates the header.
myfree_MarkFirst(h, ptr) ==
    LET chunk == ptr - Base - HeaderSize
        h1 == IF InArena(chunk + ALIGNMENT) THEN SetAllocated(h, chunk, 0) ELSE h
    IN  IF ptr = NULL
        THEN [heap |-> h, end |-> "return", why |-> "null", ub |-> FALSE]
        ELSE IF OutOfBounds(ptr)
        THEN [heap |-> h, end |-> "exit2", why |-> "bounds", ub |-> FALSE]
        ELSE IF Misaligned(ptr)
        THEN [heap |-> h, end |-> "exit2", why |-> "misaligned", ub |-> FALSE]
        ELSE IF InvalidHeader(h, chunk)
        THEN [heap |-> h1, end |-> "exit2", why |-> "header", ub |-> FALSE]
        ELSE IF ~AllocatedAt(h, chunk)
        THEN [heap |-> h1, end |-> "exit2", why |-> "double", ub |-> FALSE]
        ELSE LET n == CoalesceNext(h1, chunk)
                 p == CoalescePrev(n.heap, chunk)
             IN  [heap |-> p.heap, end |-> "return", why |-> "freed",
                  ub |-> n.ub \/ p.ub]

\* myfree(ptr) on arena h: the arena after the call and how the call ended:
\* "return", or "exit2" after the check named.  ub: the call has read a
\* header outside the arena or off a word boundary; the arena given is the one
\* the call leaves when what it read there made it merge nothing.
myfree(h, ptr) ==
    LET chunk == ptr - Base - HeaderSize
    IN  IF ptr = NULL
        THEN [heap |-> h, end |-> "return", why |-> "null", ub |-> FALSE]
        ELSE IF OutOfBounds(ptr)
        THEN [heap |-> h, end |-> "exit2", why |-> "bounds", ub |-> FALSE]
        ELSE IF Misaligned(ptr)
        THEN [heap |-> h, end |-> "exit2", why |-> "misaligned", ub |-> FALSE]
        ELSE IF InvalidHeader(h, chunk)
        THEN [heap |-> h, end |-> "exit2", why |-> "header", ub |-> FALSE]
        ELSE IF ~AllocatedAt(h, chunk)
        THEN [heap |-> h, end |-> "exit2", why |-> "double", ub |-> FALSE]
        ELSE LET h1 == SetAllocated(h, chunk, 0)
                 n == CoalesceNext(h1, chunk)
                 p == CoalescePrev(n.heap, chunk)
             IN  [heap |-> p.heap, end |-> "return", why |-> "freed",
                  ub |-> n.ub \/ p.ub]

\* ------------------------------------------------------- leak_detection
\* A walk that counts the header of a leaked chunk among its leaked bytes.
RECURSIVE LeakWalk_WithHeader(_, _, _, _)
LeakWalk_WithHeader(h, cur, leak_count, leaked_bytes) ==
    IF ~(cur < MEMLENGTH)
    THEN [count |-> leak_count, bytes |-> leaked_bytes, ub |-> FALSE]
    ELSE IF ~HeaderInArena(cur)
    THEN [count |-> leak_count, bytes |-> leaked_bytes, ub |-> TRUE]
    ELSE LET c == IF AllocatedAt(h, cur) THEN leak_count + 1 ELSE leak_count
             b == IF AllocatedAt(h, cur)
                  THEN (leaked_bytes + HeaderSize + SizeAt(h, cur)) % SizeMod
                  ELSE leaked_bytes
             next == NextOf(h, cur)
         IN  IF next >= MEMLENGTH
             THEN [count |-> c, bytes |-> b, ub |-> FALSE]
             ELSE LeakWalk_WithHeader(h, next, c, b)

\* The walk over the chunks from cur on, with the count and the bytes so far.
RECURSIVE LeakWalk(_, _, _, _)
LeakWalk(h, cur, leak_count, leaked_bytes) ==
    IF ~(cur < MEMLENGTH)
    THEN [count |-> leak_count, bytes |-> leaked_bytes, ub |-> FALSE]
    ELSE IF ~HeaderInArena(cur)
    THEN [count |-> leak_count, bytes |-> leaked_bytes, ub |-> TRUE]
    ELSE LET c == IF AllocatedAt(h, cur) THEN leak_count + 1 ELSE leak_count
             b == IF AllocatedAt(h, cur)
                  THEN (leaked_bytes + SizeAt(h, cur)) % SizeMod
                  ELSE leaked_bytes
             next == NextOf(h, cur)
         IN  IF next >= MEMLENGTH
             THEN [count |-> c, bytes |-> b, ub |-> FALSE]
             ELSE LeakWalk(h, next, c, b)

\* What leak_detection prints: nothing, or the objects and the bytes leaked.
leak_detection(h) ==
    LET w == LeakWalk(h, 0, 0, 0)
    IN  [printed |-> IF w.count > 0 THEN <<w.count, w.bytes>> ELSE <<>>,
         ub |-> w.ub]

\* ------------------------------------------------------------ the client
\* The sizes the client asks for: 0, one to MaxReqWords words, the payload of
\* the initial chunk, and the two sizes at the top of size_t: the largest one
\* the rounding does not wrap, and SIZE_MAX.
ReqSizes ==
    {0, MEMLENGTH - HeaderSize, SIZE_MAX - ALIGNMENT + 1, SIZE_MAX}
        \cup {IF k % 2 = 1 THEN k * ALIGNMENT - (ALIGNMENT - 1) ELSE k * ALIGNMENT :
                 k \in 1 .. MaxReqWords}

\* The pointers the client may pass to myfree: every word of the arena, the
\* middle of every word, and the addresses just outside the arena.
PtrInputs ==
    {p \in (Base - ALIGNMENT) .. (Base + MEMLENGTH + ALIGNMENT) : p % (ALIGNMENT \div 2) = 0}

\* What the client knows of a pointer it is about to pass to myfree: it holds
\* it, it has freed it already, it points inside an allocation it holds.
Held(ptr) == ptr \in live
WasFreed(ptr) == ptr \in freed
Interior(ptr) ==
    \E p \in live : p < ptr /\ ptr < p + granted[p]

NoCall == [op |-> "none", arg |-> 0, ret |-> NULL, end |-> "return",
           why |-> "none", held |-> FALSE, wasFreed |-> FALSE, interior |-> FALSE]

\* The callers that share the arena, and the state of a caller that is not
\* inside mymalloc.
Threads == 1 .. NumThreads

OutsideCall == [pc |-> "idle", want |-> 0, cur |-> 0, sel |-> FALSE, ret |-> NULL]

NoCalls == [t \in Threads |-> OutsideCall]

Init ==
    /\ heap = [w \in 0 .. MemWords - 1 |-> 0]
    /\ initialized = FALSE
    /\ atexits = 0
    /\ status = "running"
    /\ report = <<>>
    /\ leakRuns = 0
    /\ live = {}
    /\ granted = [p \in {} |-> 0]
    /\ freed = {}
    /\ badReturns = 0
    /\ last = NoCall
    /\ calls = NoCalls

\* The process ends with the given status: every handler registered with
\* atexit runs (exit(2) runs them as a return from main does).  A walk that
\* leaves the arena or a word boundary reads bytes the arena does not hold:
\* it prints what it has counted, or nothing.
Terminate(code) ==
    LET l == leak_detection(heap)
    IN  /\ status' = code
        /\ leakRuns' = leakRuns + atexits
        /\ report' \in IF atexits = 0 THEN {report}
                       ELSE IF l.ub THEN {l.printed, <<>>}
                       ELSE {l.printed}

\* The client is between two calls.
Idle == status = "running" /\ last.op = "none"

\* The client calls malloc(size).  When the search reads a header outside the
\* arena or off a word boundary the build reads bytes the arena does not
\* hold: the chunk there passes for a fit and its payload address is
\* returned, or the search ends and NULL is returned.
Malloc(size) ==
    /\ Idle
    /\ UNCHANGED calls
    /\ LET r == mymalloc(heap, initialized, size)
       IN  IF r.ub
           THEN /\ status' = "ub"
                /\ \E ret \in {r.ret, NULL} :
                       last' = [op |-> "malloc", arg |-> size, ret |-> ret,
                                end |-> "ub", why |-> "ub", held |-> Held(ret),
                                wasFreed |-> WasFreed(ret), interior |-> Interior(ret)]
                /\ UNCHANGED <<heap, initialized, atexits, report, leakRuns, live,
                               granted, freed, badReturns>>
           ELSE /\ heap' = r.heap
                /\ initialized' = TRUE
                /\ atexits' = IF initialized THEN atexits ELSE atexits + 1
                /\ live' = IF r.ret # NULL THEN live \cup {r.ret} ELSE live
                /\ granted' = IF r.ret # NULL
                              THEN [p \in live \cup {r.ret} |->
                                       IF p = r.ret
                                       THEN SizeAt(r.heap, r.ret - Base - HeaderSize)
                                       ELSE granted[p]]
                              ELSE granted
                /\ freed' = freed \ {r.ret}
                /\ last' = [op |-> "malloc", arg |-> size, ret |-> r.ret,
                            end |-> "return",
                            why |-> IF r.ret = NULL THEN "null" ELSE "allocated",
                            held |-> Held(r.ret), wasFreed |-> WasFreed(r.ret),
                            interior |-> Interior(r.ret)]
                /\ UNCHANGED <<status, report, leakRuns, badReturns>>

\* The call free(ptr), whoever makes it.  A call that has read a header
\* outside the arena or off a word boundary has read bytes the arena does not
\* hold: it returns having merged nothing there, or the process goes on in a
\* way the source does not determine.
FreeCall(ptr) ==
    LET r == myfree(heap, ptr)
    IN  /\ UNCHANGED <<initialized, atexits, calls>>
        /\ \E end \in (IF r.ub THEN {"return", "ub"} ELSE {r.end}) :
               /\ last' = [op |-> "free", arg |-> ptr, ret |-> NULL, end |-> end,
                           why |-> IF r.ub THEN "ub" ELSE r.why,
                           held |-> Held(ptr), wasFreed |-> WasFreed(ptr),
                           interior |-> Interior(ptr)]
               /\ CASE end = "return" ->
                         /\ heap' = r.heap
                         /\ live' = live \ {ptr}
                         /\ granted' = [p \in live \ {ptr} |-> granted[p]]
                         /\ freed' = IF ptr \in live THEN freed \cup {ptr} ELSE freed
                         /\ badReturns' = IF ptr \in live \cup {NULL}
                                          THEN badReturns ELSE badReturns + 1
                         /\ UNCHANGED <<status, report, leakRuns>>
                    [] end = "exit2" ->
                         /\ Terminate("exit2")
                         /\ heap' = r.heap
                         /\ UNCHANGED <<live, granted, freed, badReturns>>
                    [] end = "ub" ->
                         /\ status' = "ub"
                         /\ UNCHANGED <<heap, live, granted, freed, badReturns,
                                        report, leakRuns>>

\* The client frees a pointer it holds.
FreeLive(ptr) ==
    /\ Idle
    /\ ptr \in live
    /\ FreeCall(ptr)

\* The client calls free(NULL).
FreeNull ==
    /\ Idle
    /\ FreeCall(NULL)

\* The client passes a pointer it does not hold: one it has freed already,
\* one inside an allocation, one that malloc never returned.
FreeOther(ptr) ==
    /\ Idle
    /\ ptr \notin live
    /\ badReturns < MaxBadReturns
    /\ FreeCall(ptr)

\* main returns.
Exit ==
    /\ Idle
    /\ Terminate("exit0")
    /\ last' = [op |-> "exit", arg |-> 0, ret |-> NULL, end |-> "exit0",
                why |-> "exit", held |-> FALSE, wasFreed |-> FALSE, interior |-> FALSE]
    /\ UNCHANGED <<heap, initialized, atexits, live, granted, freed, badReturns,
                   calls>>

\* The client has looked at the result of the call and goes on.
Resume ==
    /\ status = "running"
    /\ last.op # "none"
    /\ last' = NoCall
    /\ UNCHANGED <<heap, initialized, atexits, status, report, leakRuns, live,
                   granted, freed, badReturns, calls>>

Next ==
    \/ \E size \in ReqSizes : Malloc(size)
    \/ \E ptr \in PtrInputs : FreeLive(ptr)
    \/ FreeNull
    \/ \E ptr \in PtrInputs : FreeOther(ptr)
    \/ Exit
    \/ Resume

Spec == Init /\ [][Next]_vars

\* ----------------------------------------------------------- the chunks
\* The chunks of the arena as leak_detection and dump_heap enumerate them:
\* the offsets of the headers met from offset cur on.
RECURSIVE ChainFrom(_, _)
ChainFrom(h, cur) ==
    IF ~(cur < MEMLENGTH)
    THEN <<>>
    ELSE IF NextOf(h, cur) >= MEMLENGTH
    THEN <<cur>>
    ELSE <<cur>> \o ChainFrom(h, NextOf(h, cur))

Chain(h) == ChainFrom(h, 0)

\* The offset the walk over the chunks stops at.
ChainEnd(h) == NextOf(h, Chain(h)[Len(Chain(h))])

ChunkSet(h) == {Chain(h)[i] : i \in 1 .. Len(Chain(h))}

TypeOK ==
    /\ heap \in [0 .. MemWords - 1 -> Nat]
    /\ initialized \in BOOLEAN
    /\ status \in {"running", "exit2", "exit0", "ub"}
    /\ live \subseteq PtrInputs
    /\ freed \subseteq PtrInputs
    /\ badReturns \in 0 .. MaxBadReturns

\* A call has returned to the client and the arena exists.
Settled == status = "running" /\ initialized

\* The chunks that are marked allocated / free.
AllocatedChunks(h) == {c \in ChunkSet(h) : AllocatedAt(h, c)}
FreeChunks(h) == {c \in ChunkSet(h) : ~AllocatedAt(h, c)}

\* C1: after every call that returns, stepping from the start of the arena by
\* header size plus payload size visits headers inside the arena only and
\* lands exactly on the end of the arena.
C1_Tiling ==
    Settled =>
        /\ ChainEnd(heap) = MEMLENGTH
        /\ \A c \in ChunkSet(heap) : HeaderInArena(c)

\* C2: after every call that returns, no chunk marked free is followed by a
\* chunk marked free.
C2_NoAdjacentFree ==
    Settled =>
        \A i \in 1 .. Len(Chain(heap)) - 1 :
            ~(~AllocatedAt(heap, Chain(heap)[i]) /\ ~AllocatedAt(heap, Chain(heap)[i + 1]))

\* C3: after every call that returns, every live pointer is the payload
\* address of a chunk marked allocated, and malloc never returns a pointer
\* that is still live (two live pointers never share a chunk).
C3_LivePointers ==
    Settled =>
        /\ \A p \in live : p - Base - HeaderSize \in AllocatedChunks(heap)
        /\ ~(last.op = "malloc" /\ last.ret # NULL /\ last.held)

\* The address ranges [a, a + n) and [b, b + m) share a byte.
Overlap(a, n, b, m) == a < b + m /\ b < a + n

\* C4: in every state the payload of a live allocation (the bytes granted when
\* malloc returned it) lies in the arena and shares no byte with the payload
\* of another live allocation or with the header of a chunk.
C4_Isolation ==
    Settled =>
        \A p \in live :
            /\ Base + HeaderSize <= p
            /\ p + granted[p] <= Base + MEMLENGTH
            /\ \A q \in live \ {p} : ~Overlap(p, granted[p], q, granted[q])
            /\ \A c \in ChunkSet(heap) : ~Overlap(p, granted[p], Base + c, HeaderSize)

\* C5: malloc(s) with s > 0 returns an address that is a multiple of the
\* alignment, or NULL; when it returns NULL no free chunk of the arena has a
\* payload of the padded size (s rounded up to a multiple of the alignment)
\* or more.
C5_AlignedOrNoFit ==
    (last.op = "malloc" /\ last.arg > 0) =>
        /\ last.ret % ALIGNMENT = 0
        /\ (status = "running" /\ last.ret = NULL) =>
               LET paddedSize == ((last.arg + ALIGNMENT - 1) \div ALIGNMENT) * ALIGNMENT
               IN  \A c \in FreeChunks(heap) : SizeAt(heap, c) < paddedSize

\* C6: free of a pointer the client holds returns, and afterwards the chunk
\* lies inside a chunk marked free.
C6_FreeOfLiveReturns ==
    (last.op = "free" /\ last.held) =>
        /\ last.end = "return"
        /\ LET c0 == last.arg - Base - HeaderSize
           IN  \E c \in FreeChunks(heap) :
                   /\ c <= c0
                   /\ NextOf(heap, c0) <= NextOf(heap, c)

\* C7: free of a pointer strictly inside the payload of a live allocation
\* ends the process with exit(2).
C7_InteriorPointerFatal ==
    (last.op = "free" /\ last.interior) => (last.end = "exit2" /\ status = "exit2")

\* C8: free of a pointer that was freed and not returned again since ends
\* the process with exit(2).
C8_DoubleFreeFatal ==
    (last.op = "free" /\ last.wasFreed) => (last.end = "exit2" /\ status = "exit2")

\* C9: free of a non-null pointer outside the arena ends the process with
\* exit(2) at the bounds check, and of a pointer inside the arena that is not
\* a multiple of the alignment at the alignment check.
C9_BoundsAndAlignmentFatal ==
    (last.op = "free" /\ last.arg # NULL) =>
        /\ (last.arg < Base \/ last.arg >= Base + MEMLENGTH) =>
               (status = "exit2" /\ last.end = "exit2" /\ last.why = "bounds")
        /\ (last.arg >= Base /\ last.arg < Base + MEMLENGTH /\ last.arg % ALIGNMENT # 0) =>
               (status = "exit2" /\ last.end = "exit2" /\ last.why = "misaligned")

\* A call of free with a pointer past the end of the arena, made while the
\* client holds an allocation, has ended the process at the bounds check.
C9_Witness ==
    /\ last.op = "free"
    /\ last.arg >= Base + MEMLENGTH
    /\ last.why = "bounds"
    /\ status = "exit2"
    /\ live # {}

\* Every pointer malloc returned has been passed to free once, and free has
\* been passed nothing else: the client holds no pointer, or the call that has
\* just ended without returning was passed the only pointer it held.
AllPassedOnce ==
    /\ initialized
    /\ badReturns = 0
    /\ \/ live = {}
       \/ last.op = "free" /\ last.held /\ live = {last.arg}

\* C10: after calls in which every pointer malloc returned has been passed
\* to free exactly once, the arena is one free chunk of payload
\* MEMLENGTH - HeaderSize.
C10_AllFreedOneChunk ==
    AllPassedOnce =>
        /\ Chain(heap) = <<0>>
        /\ ~AllocatedAt(heap, 0)
        /\ SizeAt(heap, 0) = MEMLENGTH - HeaderSize

\* ---------------------------------------------------------------- C11
\* The runs of two or three live pointers whose chunks follow one another in
\* the arena, lowest address first.
AdjacentRuns ==
    LET Follows(p, q) == q - Base - HeaderSize = NextOf(heap, p - Base - HeaderSize)
    IN  {<<p, q>> : <<p, q>> \in {pq \in live \X live : Follows(pq[1], pq[2])}}
        \cup {<<pqr[1], pqr[2], pqr[3]>> :
                 pqr \in {t \in live \X live \X live :
                             Follows(t[1], t[2]) /\ Follows(t[2], t[3])}}

\* The orders in which the client may free the pointers of a run.
Orders(run) ==
    {o \in [1 .. Len(run) -> 1 .. Len(run)] :
        \A i, j \in 1 .. Len(run) : i # j => o[i] # o[j]}

\* The arena after free(run[o[i]]), free(run[o[i + 1]]), ... called on arena
\* h, and whether every one of the calls returned.
RECURSIVE FreeInOrder(_, _, _, _)
FreeInOrder(h, run, o, i) ==
    IF i > Len(run)
    THEN [heap |-> h, returned |-> TRUE]
    ELSE LET r == myfree(h, run[o[i]])
         IN  IF r.end # "return" \/ r.ub
             THEN [heap |-> r.heap, returned |-> FALSE]
             ELSE FreeInOrder(r.heap, run, o, i + 1)

\* The payloads of the chunks of a run, with one header for each boundary
\* between two of them.
RECURSIVE SpanOf(_, _)
SpanOf(run, i) ==
    IF i > Len(run) THEN 0
    ELSE granted[run[i]] + (IF i < Len(run) THEN HeaderSize ELSE 0) + SpanOf(run, i + 1)

\* C11: when a run of two or three address-adjacent allocated chunks is
\* freed, in any order, every call returns and one free chunk covers the
\* chunks of the run, its payload being the payloads merged plus HeaderSize for
\* each boundary removed (those of the run, and those of a free neighbour of
\* the run); a malloc that follows, of a padded size that fits the span of the
\* run and none of its chunks, returns a pointer.
C11_AdjacentFreesCoalesce ==
    Settled =>
        \A run \in AdjacentRuns : \A o \in Orders(run) :
            LET first == run[1] - Base - HeaderSize
                lastc == run[Len(run)] - Base - HeaderSize
                after == NextOf(heap, lastc)
                pred == {c \in FreeChunks(heap) : NextOf(heap, c) = first}
                succ == {c \in FreeChunks(heap) : c = after}
                lo == IF pred = {} THEN first ELSE CHOOSE c \in pred : TRUE
                merged == SpanOf(run, 1)
                            + (IF pred = {} THEN 0 ELSE HeaderSize + SizeAt(heap, lo))
                            + (IF succ = {} THEN 0 ELSE HeaderSize + SizeAt(heap, after))
                f == FreeInOrder(heap, run, o, 1)
            IN  /\ f.returned
                /\ lo \in FreeChunks(f.heap)
                /\ SizeAt(f.heap, lo) = merged
                /\ \A size \in ReqSizes :
                       LET padded == ((size + ALIGNMENT - 1) \div ALIGNMENT) * ALIGNMENT
                       IN  (/\ size > 0
                            /\ padded <= SpanOf(run, 1)
                            /\ \A i \in 1 .. Len(run) : padded > granted[run[i]])
                           => mymalloc(f.heap, TRUE, size).ret # NULL

\* ---------------------------------------------------------------- C12
\* p = malloc(size); free(p); q = malloc(size) on arena h: the two pointers
\* and whether the three calls returned.
Reuse(h, init, size) ==
    LET r1 == mymalloc(h, init, size)
        r2 == myfree(r1.heap, r1.ret)
        r3 == mymalloc(r2.heap, TRUE, size)
    IN  [p |-> r1.ret, q |-> r3.ret,
         returned |-> ~r1.ub /\ r2.end = "return" /\ ~r2.ub /\ ~r3.ub]

\* C12: when the client holds no allocation, p = malloc(s); free(p);
\* q = malloc(s) gives q = p, for every size s.
C12_Reuse ==
    (status = "running" /\ live = {}) =>
        \A size \in ReqSizes :
            LET r == Reuse(heap, initialized, size)
            IN  r.returned /\ r.q = r.p

\* ---------------------------------------------------------------- C13
\* The sum of the payload sizes of a set of chunks of arena h.
RECURSIVE PayloadSum(_, _)
PayloadSum(h, cs) ==
    IF cs = {} THEN 0
    ELSE LET c == CHOOSE x \in cs : TRUE
         IN  SizeAt(h, c) + PayloadSum(h, cs \ {c})

C14_LeakRunsOnceNotOnFatal ==
    /\ (status = "exit0" /\ initialized) => leakRuns = 1
    /\ status = "running" => leakRuns = 0
    /\ status = "exit2" => leakRuns = 0

\* ---------------------------------------------------------------- C15
\* The step is a call malloc(0) that has ended.
MallocZeroStep == last.op = "none" /\ last'.op = "malloc" /\ last'.arg = 0

\* C15 as stated: malloc(0) returns NULL and changes nothing of the
\* allocator, the first call of the process included.
C15_ZeroSizeNoChange ==
    [][MallocZeroStep =>
          /\ last'.ret = NULL
          /\ heap' = heap
          /\ initialized' = initialized
          /\ atexits' = atexits]_vars

\* C15 amended: malloc(0) returns NULL; in an initialized arena it changes
\* nothing, and as the first call of the process it initializes the arena
\* (one free chunk of payload MEMLENGTH - HeaderSize, leak_detection
\* registered once) and changes nothing else.
C15_ZeroSizeOnlyInitializes ==
    [][MallocZeroStep =>
          /\ last'.ret = NULL
          /\ status' = "running"
          /\ UNCHANGED <<live, granted, freed, report, leakRuns, badReturns>>
          /\ initialized'
          /\ initialized => (heap' = heap /\ atexits' = atexits)
          /\ ~initialized =>
                 /\ atexits' = atexits + 1
                 /\ heap' = [heap EXCEPT ![0] = MEMLENGTH - HeaderSize, ![1] = 0]]_vars

\* malloc(0) has been the first call of the process.
C15_Witness ==
    /\ last.op = "malloc" /\ last.arg = 0 /\ last.ret = NULL
    /\ atexits = 1
    /\ heap = [w \in 0 .. MemWords - 1 |-> IF w = 0 THEN MEMLENGTH - HeaderSize ELSE 0]
    /\ live = {} /\ freed = {} /\ badReturns = 0

\* ---------------------------------------------------------------- C16
\* The arena a call of malloc searches: initialized by the call if need be.
ArenaAtCall == IF initialized THEN heap ELSE initialize_heap(heap)

\* The step is a call malloc(size), size > 0, that has ended.
MallocStep == last.op = "none" /\ last'.op = "malloc" /\ last'.arg > 0

\* C16: when no free chunk has a payload of the padded size or more, malloc
\* returns NULL and leaves every chunk header as it was.
C16_OutOfMemoryNoChange ==
    [][(/\ MallocStep
        /\ LET padded == ((last'.arg + ALIGNMENT - 1) \div ALIGNMENT) * ALIGNMENT
           IN  \A c \in FreeChunks(ArenaAtCall) : SizeAt(ArenaAtCall, c) < padded)
       => (last'.ret = NULL /\ heap' = ArenaAtCall)]_vars

\* ---------------------------------------------------------------- C17
\* The step is a call free(NULL) that has ended.
FreeNullStep == last.op = "none" /\ last'.op = "free" /\ last'.arg = NULL

\* C17: free(NULL) returns and leaves the arena and everything else of the
\* allocator as it was, in whatever state it is called.
C17_FreeNullNoOp ==
    [][FreeNullStep =>
          /\ last'.end = "return"
          /\ last'.why = "null"
          /\ UNCHANGED <<heap, initialized, atexits, status, report, leakRuns,
                         live, granted, freed, badReturns>>]_vars

\* free(NULL) has returned in a process that holds an allocation, has freed
\* another and has had a bad free come back.
C17_Witness ==
    /\ last.op = "free" /\ last.arg = NULL /\ last.end = "return"
    /\ status = "running"
    /\ live # {} /\ freed # {} /\ badReturns > 0

\* ---------------------------------------------------------------- C18
\* The free chunks of arena h whose payload is size rounded up to a multiple
\* of the alignment, or more.
Fitting(h, size) ==
    LET padded == ((size + ALIGNMENT - 1) \div ALIGNMENT) * ALIGNMENT
    IN  {c \in FreeChunks(h) : SizeAt(h, c) >= padded}

\* C18: a malloc that returns a pointer has selected the free chunk of the
\* lowest address among those whose payload is the padded size or more.
C18_FirstFit ==
    [][(MallocStep /\ last'.ret # NULL) =>
          LET c == last'.ret - Base - HeaderSize
          IN  /\ c \in Fitting(ArenaAtCall, last'.arg)
              /\ \A d \in Fitting(ArenaAtCall, last'.arg) : c <= d]_vars

\* ---------------------------------------------------------------- C19
\* What a malloc step that has returned pointer ret for a request rounded to
\* want has done to the chunk it selected: split it (the chunk gets payload
\* want, a new free chunk right after it gets the rest less one header, no
\* other word changes), or handed it over whole (only its flag changes).
HasSplit(c, want) ==
    LET old == SizeAt(ArenaAtCall, c)
        new_chunk == c + HeaderSize + want
    IN  /\ HeaderInArena(new_chunk)
        /\ SizeAt(heap', c) = want
        /\ AllocatedAt(heap', c)
        /\ SizeAt(heap', new_chunk) = old - want - HeaderSize
        /\ ~AllocatedAt(heap', new_chunk)
        /\ NextOf(heap', new_chunk) = NextOf(ArenaAtCall, c)
        /\ \A w \in 0 .. MemWords - 1 :
               w * ALIGNMENT \notin {c, c + ALIGNMENT, new_chunk, new_chunk + ALIGNMENT}
                   => heap'[w] = ArenaAtCall[w]

HandedWhole(c) ==
    /\ AllocatedAt(heap', c)
    /\ \A w \in 0 .. MemWords - 1 :
           w * ALIGNMENT # c + ALIGNMENT => heap'[w] = ArenaAtCall[w]

\* The step is a call malloc that has returned a pointer.
MallocReturnedStep == MallocStep /\ last'.ret # NULL /\ status' = "running"

\* C19 as stated: the chunk selected is split exactly when its payload is
\* strictly greater than the rounded size plus HeaderSize plus MIN_CHUNK_SIZE.
C19_SplitIffStrictlyGreater ==
    [][MallocReturnedStep =>
          LET c == last'.ret - Base - HeaderSize
              want == AlignedSize(last'.arg)
          IN  IF SizeAt(ArenaAtCall, c) > want + HeaderSize + MIN_CHUNK_SIZE
              THEN HasSplit(c, want)
              ELSE HandedWhole(c)]_vars

\* C19 amended: the chunk selected is split exactly when its payload is the
\* rounded size plus HeaderSize plus MIN_CHUNK_SIZE or more.
C19_SplitIffAtLeast ==
    [][MallocReturnedStep =>
          LET c == last'.ret - Base - HeaderSize
              want == AlignedSize(last'.arg)
          IN  IF SizeAt(ArenaAtCall, c) >= want + HeaderSize + MIN_CHUNK_SIZE
              THEN HasSplit(c, want)
              ELSE HandedWhole(c)]_vars

\* malloc has split a chunk whose payload was exactly the rounded size plus
\* HeaderSize plus MIN_CHUNK_SIZE: the free chunk it left has payload
\* MIN_CHUNK_SIZE.
C19_Witness ==
    /\ last.op = "malloc" /\ last.ret # NULL /\ status = "running"
    /\ badReturns = 0
    /\ LET c == last.ret - Base - HeaderSize
       IN  /\ SizeAt(heap, c) = AlignedSize(last.arg)
           /\ NextOf(heap, c) \in FreeChunks(heap)
           /\ SizeAt(heap, NextOf(heap, c)) = MIN_CHUNK_SIZE

\* ---------------------------------------------------------------- C20
\* The step is a call free(ptr), ptr not NULL, that has returned.
FreeReturnedStep ==
    last.op = "none" /\ last'.op = "free" /\ last'.arg # NULL /\ last'.end = "return"

\* C20: after a free that returns for chunk c the chunks are those of before
\* with c, its successor (if it is in the arena and free) and its predecessor
\* (if there is one and it is free) replaced by one free chunk at the lowest
\* of their addresses, its payload the payloads merged plus HeaderSize for
\* each boundary removed; the header of every other chunk is as it was.
C20_FreeLayout ==
    [][FreeReturnedStep =>
          LET c == last'.arg - Base - HeaderSize
              next == NextOf(heap, c)
              withNext == next < MEMLENGTH /\ ~AllocatedAt(heap, next)
              preds == {p \in ChunkSet(heap) : NextOf(heap, p) = c}
              withPrev == \E p \in preds : ~AllocatedAt(heap, p)
              lo == IF withPrev THEN CHOOSE p \in preds : TRUE ELSE c
              size1 == SizeAt(heap, c)
                         + (IF withNext THEN HeaderSize + SizeAt(heap, next) ELSE 0)
              size2 == IF withPrev THEN SizeAt(heap, lo) + HeaderSize + size1 ELSE size1
              gone == (IF withPrev THEN {c} ELSE {}) \cup (IF withNext THEN {next} ELSE {})
              Stays(d) == d \notin gone
          IN  /\ c \in ChunkSet(heap)
              /\ Chain(heap') = SelectSeq(Chain(heap), Stays)
              /\ ~AllocatedAt(heap', lo)
              /\ SizeAt(heap', lo) = size2
              /\ \A d \in ChunkSet(heap') \ {lo} :
                     /\ SizeAt(heap', d) = SizeAt(heap, d)
                     /\ AllocatedAt(heap', d) = AllocatedAt(heap, d)]_vars

\* ---------------------------------------------------------------- C21
\* The headers a call finds in the arena: those of the chunks, and those
\* behind the pointers the client holds.
HeadersAtCall ==
    ChunkSet(ArenaAtCall) \cup {p - Base - HeaderSize : p \in live}

\* C21: a malloc that returns a pointer changes the header of the chunk it
\* selected and, when it splits, writes the header of the free remainder; the
\* size and the flag of every other chunk are as they were.
C21_MallocFrame ==
    [][MallocReturnedStep =>
          LET c == last'.ret - Base - HeaderSize
          IN  \A d \in HeadersAtCall \ {c} :
                  /\ SizeAt(heap', d) = SizeAt(ArenaAtCall, d)
                  /\ AllocatedAt(heap', d) = AllocatedAt(ArenaAtCall, d)]_vars

\* ---------------------------------------------------------------- C22
\* C22: after every call that returns, the payload size of every chunk of the
\* arena is a positive multiple of ALIGNMENT.
C22_PositiveAlignedSizes ==
    (initialized /\ status = "running") =>
        \A c \in ChunkSet(heap) :
            SizeAt(heap, c) > 0 /\ SizeAt(heap, c) % ALIGNMENT = 0

\* ---------------------------------------------------------------- C23
\* The arena as initialize_heap leaves it: one free chunk over all of it.
FreshArena ==
    ArenaAtCall = initialize_heap([w \in 0 .. MemWords - 1 |-> 0])

\* malloc returns a pointer from a fresh arena.
FirstMallocStep ==
    FreshArena /\ MallocReturnedStep

\* The arena holds an allocated chunk of payload want at its base and one
\* free chunk after it, up to the end.
TwoChunks(h, want) ==
    /\ Chain(h) = <<0, HeaderSize + want>>
    /\ SizeAt(h, 0) = want /\ AllocatedAt(h, 0)
    /\ SizeAt(h, HeaderSize + want) = MEMLENGTH - 2 * HeaderSize - want
    /\ ~AllocatedAt(h, HeaderSize + want)

\* The arena holds one allocated chunk over all of it.
OneChunk(h) ==
    /\ Chain(h) = <<0>>
    /\ SizeAt(h, 0) = MEMLENGTH - HeaderSize /\ AllocatedAt(h, 0)

\* C23: the first malloc(s) that returns a pointer from a fresh arena leaves
\* two chunks: an allocated one at the base whose payload is s rounded up to
\* a multiple of ALIGNMENT, and a free one of payload MEMLENGTH - 2 *
\* HeaderSize - that payload.
C23_FirstMallocTwoChunks ==
    [][FirstMallocStep =>
          LET s == last'.arg
              padded == ((s + ALIGNMENT - 1) \div ALIGNMENT) * ALIGNMENT
          IN  TwoChunks(heap', padded)]_vars

\* C23 amended: for a request that fits the arena, the first malloc(s) that
\* returns a pointer leaves the two chunks when the rounded size leaves room
\* for a header and MIN_CHUNK_SIZE bytes after it, and one allocated chunk
\* over the whole arena otherwise.
C23_FirstMallocSplitOrWhole ==
    [][FirstMallocStep =>
          LET s == last'.arg
              padded == ((s + ALIGNMENT - 1) \div ALIGNMENT) * ALIGNMENT
          IN  padded <= MEMLENGTH - HeaderSize =>
                  IF padded + HeaderSize + MIN_CHUNK_SIZE <= MEMLENGTH - HeaderSize
                  THEN TwoChunks(heap', padded)
                  ELSE OneChunk(heap')]_vars

\* The first malloc, of a size that is not a multiple of ALIGNMENT, has
\* returned the base chunk and left a free chunk after it.
C23_Witness ==
    /\ last.op = "malloc" /\ last.ret = Base + HeaderSize
    /\ last.arg % ALIGNMENT # 0 /\ last.arg < MEMLENGTH
    /\ live = {last.ret} /\ freed = {} /\ badReturns = 0
    /\ Len(Chain(heap)) = 2

\* ---------------------------------------------------------------- C24
\* The values current takes in the loop of leak_detection, from cur on, as
\* far as current->size is a word of the arena.
RECURSIVE LeakCursors(_, _)
LeakCursors(h, cur) ==
    IF ~(cur < MEMLENGTH) \/ ~InArena(cur)
    THEN <<cur>>
    ELSE <<cur>> \o LeakCursors(h, NextOf(h, cur))

\* The values current takes in the search loop of mymalloc, from cur on.
RECURSIVE FitCursors(_, _, _)
FitCursors(h, cur, want) ==
    IF ~(cur < MEMLENGTH) \/ ~HeaderInArena(cur)
    THEN <<cur>>
    ELSE IF ~AllocatedAt(h, cur) /\ SizeAt(h, cur) >= want
    THEN <<cur>>
    ELSE LET next == NextOf(h, cur)
         IN  IF next <= cur \/ next >= MEMLENGTH
             THEN <<cur>>
             ELSE <<cur>> \o FitCursors(h, next, want)

\* The values scan takes in the predecessor loop of myfree, from scan on.
RECURSIVE PrevCursors(_, _, _)
PrevCursors(h, scan, chunk) ==
    IF ~(scan # chunk /\ scan < MEMLENGTH) \/ ~InArena(scan)
    THEN <<scan>>
    ELSE LET next_scan == NextOf(h, scan)
         IN  IF next_scan = chunk \/ next_scan <= scan \/ next_scan >= MEMLENGTH
             THEN <<scan>>
             ELSE <<scan>> \o PrevCursors(h, next_scan, chunk)

\* Each value of the cursor is above the one before, and the last one is at
\* the end of the arena or before it.
AdvancesAndStops(w) ==
    /\ \A i \in 1 .. Len(w) - 1 : w[i] < w[i + 1]
    /\ w[Len(w)] <= MEMLENGTH

\* C24: in every arena the program reaches, the search loop of malloc, the
\* predecessor scan of free and the leak walk at exit each move their cursor
\* to a higher address at every iteration and stop at the end of the arena or
\* before it, so that every call and the leak scan terminate.
C24_LoopsAdvanceAndStop ==
    initialized =>
        /\ AdvancesAndStops(LeakCursors(heap, 0))
        /\ \A size \in ReqSizes \ {0} :
               AdvancesAndStops(FitCursors(heap, 0, AlignedSize(size)))
        /\ \A ptr \in live :
               AdvancesAndStops(PrevCursors(heap, 0, ptr - Base - HeaderSize))

\* ---------------------------------------------------------------- C25
\* The step is a call of malloc or of free, whatever its argument, that has
\* ended.
CallStep == last.op = "none" /\ last'.op \in {"malloc", "free"}

\* C25: the first call of malloc or of free, whatever its argument, creates
\* the initial free chunk and registers the leak detector; no later call
\* does either again: after every call the arena is initialized and the leak
\* detector is registered once, and a first call that hands out nothing
\* leaves the one free chunk over the whole arena.
C25_FirstCallInitializes ==
    [][CallStep =>
          /\ initialized' /\ atexits' = 1
          /\ (~initialized /\ last'.ret = NULL) =>
                 heap' = initialize_heap([w \in 0 .. MemWords - 1 |-> 0])]_vars

\* ---------------------------------------------------------------- C26
\* Callers that run mymalloc at the same time, with nothing to exclude one
\* another: a step is the entry of a call, one iteration of its search loop,
\* the taking of the chunk it selected, or its return to the caller.

\* The payload address mymalloc returns for the chunk it selected at cur.
TakeReturn_Retest(h, cur) ==
    IF AllocatedAt(h, cur) THEN NULL ELSE Base + cur + HeaderSize

TakeReturn(h, cur) == Base + cur + HeaderSize

\* mymalloc(size) is entered by caller t: the arena is initialized if need be,
\* a size of 0 is refused, the size is rounded.
Enter(t, size) ==
    /\ status = "running"
    /\ calls[t].pc = "idle"
    /\ heap' = IF initialized THEN heap ELSE initialize_heap(heap)
    /\ initialized' = TRUE
    /\ atexits' = IF initialized THEN atexits ELSE atexits + 1
    /\ calls' = [calls EXCEPT ![t] =
                    IF size = 0
                    THEN [OutsideCall EXCEPT !.pc = "done"]
                    ELSE [OutsideCall EXCEPT !.pc = "search",
                                             !.want = AlignedSize(size)]]
    /\ UNCHANGED <<status, report, leakRuns, live, granted, freed, badReturns, last>>

\* One iteration of the search loop of caller t: the chunk at cur is selected,
\* or the loop goes on to the next chunk, or it ends with no chunk.
SearchStep(t) ==
    /\ status = "running"
    /\ calls[t].pc = "search"
    /\ LET cur == calls[t].cur
           next == NextOf(heap, cur)
       IN  IF ~HeaderInArena(cur)
           THEN status' = "ub" /\ UNCHANGED calls
           ELSE /\ UNCHANGED status
                /\ calls' = [calls EXCEPT ![t] =
                       IF ~AllocatedAt(heap, cur) /\ SizeAt(heap, cur) >= calls[t].want
                       THEN [@ EXCEPT !.pc = "take", !.sel = TRUE]
                       ELSE IF next <= cur \/ next >= MEMLENGTH
                       THEN [@ EXCEPT !.pc = "done"]
                       ELSE [@ EXCEPT !.cur = next]]
    /\ UNCHANGED <<heap, initialized, atexits, report, leakRuns, live, granted,
                   freed, badReturns, last>>

\* Caller t splits the chunk it selected if it is large enough, marks it
\* allocated and has its payload address to return.
TakeStep(t) ==
    /\ status = "running"
    /\ calls[t].pc = "take"
    /\ LET c == TakeChunk(heap, calls[t].cur, calls[t].want)
       IN  IF c.ub
           THEN status' = "ub" /\ UNCHANGED <<heap, calls>>
           ELSE /\ UNCHANGED status
                /\ heap' = c.heap
                /\ calls' = [calls EXCEPT ![t] =
                       [@ EXCEPT !.pc = "done",
                                 !.ret = TakeReturn(heap, calls[t].cur)]]
    /\ UNCHANGED <<initialized, atexits, report, leakRuns, live, granted, freed,
                   badReturns, last>>

\* The call of caller t returns; the caller keeps what it was handed and may
\* call again.
Return(t) ==
    /\ status = "running"
    /\ calls[t].pc = "done"
    /\ calls' = [calls EXCEPT ![t] = OutsideCall]
    /\ UNCHANGED <<heap, initialized, atexits, status, report, leakRuns, live,
                   granted, freed, badReturns, last>>

NextConcurrent ==
    \/ \E t \in Threads, size \in ReqSizes : Enter(t, size)
    \/ \E t \in Threads : SearchStep(t)
    \/ \E t \in Threads : TakeStep(t)
    \/ \E t \in Threads : Return(t)

SpecConcurrent == Init /\ [][NextConcurrent]_vars

\* C26: nothing in mymalloc keeps two calls that run at the same time from
\* selecting the same free chunk: when two callers have selected the same
\* chunk, each is handed its payload address, the same for both.
C26_SameChunkSameAddress ==
    \A t, u \in Threads :
        (/\ t # u
         /\ calls[t].pc = "done" /\ calls[u].pc = "done"
         /\ calls[t].sel /\ calls[u].sel
         /\ calls[t].cur = calls[u].cur)
        => (calls[t].ret # NULL /\ calls[t].ret = calls[u].ret)

\* Two calls under way at the same time have been handed the same payload
\* address.
C26_Witness ==
    \E t, u \in Threads :
        /\ t # u
        /\ calls[t].pc = "done" /\ calls[u].pc = "done"
        /\ calls[t].ret # NULL /\ calls[t].ret = calls[u].ret

\* ---------------------------------------------------------------- C27
\* C27: for every size above 0 the size malloc rounds to is the size asked
\* for or more, so that malloc(s) with s above MEMLENGTH - HeaderSize returns
\* NULL and creates no chunk of payload 0.
C27_RoundingNeverWraps ==
    [][MallocStep =>
          /\ AlignedSize(last'.arg) >= last'.arg
          /\ last'.arg > MEMLENGTH - HeaderSize =>
                 /\ last'.ret = NULL
                 /\ \A c \in ChunkSet(heap') : SizeAt(heap', c) # 0]_vars

\* ---------------------------------------------------------------- C28
\* The step is a call of free that has ended the process with status 2.
FreeFatalStep == last.op = "none" /\ last'.op = "free" /\ last'.end = "exit2"

\* C28: when free ends the process (pointer out of bounds, misaligned, header
\* not valid, chunk free already) every word of the arena is as it was before
\* the call: each check comes before the first write.
C28_FatalFreeWritesNothing ==
    [][FreeFatalStep => heap' = heap]_vars

\* free has found the header behind the pointer not valid and ended the
\* process while the client held allocations.
C28_Witness ==
    /\ last.op = "free" /\ last.end = "exit2" /\ last.why = "header"
    /\ status = "exit2" /\ live # {}
    /\ AllocatedAt(heap, last.arg - Base - HeaderSize)

\* ---------------------------------------------------------------- C29
\* C29: the chunk behind a pointer malloc(s) returns has a payload of s
\* rounded up to a multiple of ALIGNMENT or more, and of less than that plus
\* HeaderSize plus MIN_CHUNK_SIZE; the payload size in its header stays what
\* it was for as long as the client holds the pointer.
C29_PayloadBoundsAndStable ==
    [][/\ MallocReturnedStep =>
             LET s == last'.arg
                 padded == ((s + ALIGNMENT - 1) \div ALIGNMENT) * ALIGNMENT
                 size == SizeAt(heap', last'.ret - Base - HeaderSize)
             IN  padded <= size /\ size < padded + HeaderSize + MIN_CHUNK_SIZE
        /\ \A ptr \in live \cap live' :
               SizeAt(heap', ptr - Base - HeaderSize)
                   = SizeAt(heap, ptr - Base - HeaderSize)]_vars

\* ---------------------------------------------------------------- C30
\* The allocator of src/project1-mymalloc/mymalloc.c, on the same arena
\* model.  Its rounding, its split, its bounds and alignment checks and its
\* coalescing with the next chunk are those of the allocator above, line for
\* line; its search loop, its header validation and its scan for the previous
\* chunk are its own.

\* The search loop: it moves on with no test of the next address.
RECURSIVE project1_FindFit(_, _, _)
project1_FindFit(h, chunk, want) ==
    IF ~(chunk < MEMLENGTH)
    THEN [found |-> FALSE, at |-> 0, ub |-> FALSE]
    ELSE IF ~HeaderInArena(chunk)
    THEN [found |-> FALSE, at |-> chunk, ub |-> TRUE]
    ELSE IF ~AllocatedAt(h, chunk) /\ SizeAt(h, chunk) >= want
    THEN [found |-> TRUE, at |-> chunk, ub |-> FALSE]
    ELSE project1_FindFit(h, NextOf(h, chunk), want)

project1_mymalloc(h, init, size) ==
    LET h0 == IF init THEN h ELSE initialize_heap(h)
    IN  IF size = 0
        THEN [heap |-> h0, ret |-> NULL, ub |-> FALSE]
        ELSE LET want == AlignedSize(size)
                 f == project1_FindFit(h0, 0, want)
             IN  IF f.ub
                 THEN [heap |-> h0, ret |-> Base + f.at + HeaderSize, ub |-> TRUE]
                 ELSE IF ~f.found
                 THEN [heap |-> h0, ret |-> NULL, ub |-> FALSE]
                 ELSE LET t == TakeChunk(h0, f.at, want)
                      IN  [heap |-> t.heap,
                           ret |-> Base + f.at + HeaderSize,
                           ub |-> t.ub]

\* The validation of the header at offset header = ptr - sizeof(struct chunk).
project1_InvalidHeader(h, header) ==
    \/ header < 0
    \/ header >= MEMLENGTH
    \/ SizeAt(h, header) <= 0
    \/ SizeAt(h, header) % 8 # 0
    \/ SizeAt(h, header) > MEMLENGTH

\* The scan for the previous chunk: scan moves on by scan->size, with no
\* header size added; where scan->size is 0 it stays in place for ever.
RECURSIVE project1_FindPrev(_, _, _)
project1_FindPrev(h, scan, header) ==
    IF ~(scan < header /\ scan < MEMLENGTH)
    THEN [found |-> FALSE, at |-> 0, hang |-> FALSE, ub |-> FALSE]
    ELSE IF ~InArena(scan)
    THEN [found |-> FALSE, at |-> scan, hang |-> FALSE, ub |-> TRUE]
    ELSE IF scan + SizeAt(h, scan) = header
    THEN [found |-> TRUE, at |-> scan, hang |-> FALSE, ub |-> ~HeaderInArena(scan)]
    ELSE IF SizeAt(h, scan) = 0
    THEN [found |-> FALSE, at |-> scan, hang |-> TRUE, ub |-> FALSE]
    ELSE project1_FindPrev(h, scan + SizeAt(h, scan), header)

\* myfree(ptr) on arena h: the arena after the call and how the call ended:
\* "return", "exit2", or "hang" when the scan never ends.
project1_myfree(h, init, ptr) ==
    LET h0 == IF init THEN h ELSE initialize_heap(h)
        header == ptr - Base - HeaderSize
    IN  IF ptr = NULL
        THEN [heap |-> h0, end |-> "return", ub |-> FALSE]
        ELSE IF OutOfBounds(ptr) \/ Misaligned(ptr)
        THEN [heap |-> h0, end |-> "exit2", ub |-> FALSE]
        ELSE IF project1_InvalidHeader(h0, header)
        THEN [heap |-> h0, end |-> "exit2", ub |-> FALSE]
        ELSE IF ~AllocatedAt(h0, header)
        THEN [heap |-> h0, end |-> "exit2", ub |-> FALSE]
        ELSE LET h1 == SetAllocated(h0, header, 0)
                 n == CoalesceNext(h1, header)
                 p == project1_FindPrev(n.heap, 0, header)
             IN  IF p.hang
                 THEN [heap |-> n.heap, end |-> "hang", ub |-> n.ub]
                 ELSE IF p.found /\ ~p.ub /\ ~AllocatedAt(n.heap, p.at)
                 THEN [heap |-> SetSize(n.heap, p.at,
                                        (SizeAt(n.heap, p.at) + SizeAt(n.heap, header))
                                            % SizeMod),
                       end |-> "return", ub |-> n.ub]
                 ELSE [heap |-> n.heap, end |-> "return", ub |-> n.ub \/ p.ub]

\* The chunks of arena h with the size and the flag of each.
Layout(h) ==
    [c \in ChunkSet(h) |-> <<SizeAt(h, c), AllocatedAt(h, c)>>]

\* C30: on an arena that calls of malloc and calls of free on live pointers
\* have made, the next such call ends the same way in the two allocators:
\* both return or both end the process, malloc returns the same pointer or
\* NULL, and the chunks of the arena, their sizes and their flags are the same
\* afterwards.
C30_SameResults ==
    (Idle /\ badReturns = 0) =>
        /\ \A size \in ReqSizes :
               LET a == mymalloc(heap, initialized, size)
                   b == project1_mymalloc(heap, initialized, size)
               IN  /\ ~a.ub /\ ~b.ub
                   /\ a.ret = b.ret
                   /\ Layout(a.heap) = Layout(b.heap)
        /\ \A ptr \in live :
               LET a == myfree(heap, ptr)
                   b == project1_myfree(heap, initialized, ptr)
               IN  /\ ~a.ub /\ ~b.ub
                   /\ a.end = b.end
                   /\ Layout(a.heap) = Layout(b.heap)

====
